---- MODULE Spec2Model ----
(***************************************************************************)
(* The incremental table replicator: upsert_data (src/upsert_data.py),     *)
(* get_new_data (src/get_new_data.py) and process_tables                   *)
(* (src/process_tables.py), with the target store (SQL Server, reached     *)
(* through SQLAlchemy 2.x: the top-level "from sqlalchemy import Engine"   *)
(* exists only there) modelled as relations plus a transaction snapshot.   *)
(*                                                                         *)
(* A behaviour is a caller invoking one of the three public functions,     *)
(* again and again, on a store whose content is an input.                  *)
(***************************************************************************)
EXTENDS Integers, Sequences, FiniteSets, TLC

\* ------------------------------------------------------------- bounds
\* Key-tuples of the replicated table.
MaxKey == 2
\* Rows of a dataframe.
MaxBatch == 2
\* Ticks of the watermark clock after datetime.min.
MaxTime == 2
\* Entries of the JSON file's table list.
MaxTables == 2
\* Characters of a schema name or a table name.
MaxName == 2

Keys == 1..MaxKey
\* Two distinct contents of the non-key columns tell an overwrite from a keep.
Vals == {1, 2}
\* A row of the replicated table: its key-column tuple and its non-key columns.
Rows == [k : Keys, v : Vals]

KeyUnique(T) == \A r1 \in T, r2 \in T : r1.k = r2.k => r1 = r2
\* The target table holds one row per key (its primary key).
Targets == {T \in SUBSET Rows : KeyUnique(T)}
\* A DataFrame: rows in order, duplicate keys not excluded by the code.
DataFrames == UNION {[1..n -> Rows] : n \in 0..MaxBatch}
\* What the staging table may hold when a call starts (nothing, or a row): it is
\* a heap without constraints (SELECT TOP 0 * INTO copies none), it outlives
\* every call, and its rows, like the target's, are an input: the store is the
\* caller's.
Residues == {<<>>} \cup {<<r>> : r \in Rows}

\* datetime.min, the watermark of a table never replicated; time is counted in
\* ticks from it.
DatetimeMin == 0
Times == DatetimeMin..MaxTime
\* SQL NULL in the watermark column: no timestamp.
Null == DatetimeMin - 1
\* A row of the source table: its key and its watermark column.
SourceRows == [k : Keys, wm : Times \cup {Null}]
Sources == {T \in SUBSET SourceRows : KeyUnique(T)}

\* The keys process_tables reads from a table's entry of the JSON file.
Fields == <<"schema", "name", "key_columns", "last_modified_column">>
FieldSet == {Fields[i] : i \in 1..Len(Fields)}
\* An entry is the set of keys it has: all four, or all but one. The file holds
\* a list of entries.
Entries == {FieldSet} \cup {FieldSet \ {f} : f \in FieldSet}
Configs == UNION {[1..n -> Entries] : n \in 0..MaxTables}

\* Schema and table names: strings of letters and underscores, as sequences of
\* characters.
Chars == {"a", "_"}
Names == UNION {[1..n -> Chars] : n \in 1..MaxName}

VARIABLES
    pc,             \* position of the running function, or how it ended
    target,         \* rows of {schema}.{table} in the target store
    stagingExists,  \* whether staging.[{schema}_{table}] exists
    staging,        \* its rows, in insertion order
    dataframe,      \* the dataframe argument of upsert_data
    snap,           \* the store as of the open transaction's begin
    pending,        \* the exception caught by "except Exception as e" and where it rose
    error,          \* the class of the exception that reached the caller
    counts,         \* the locals rows_inserted and rows_updated
    rolledBack,     \* trans.rollback() has run in this call
    atCall,         \* the store when the call started
    repeat,         \* this call's dataframe is the previous call's
    source,         \* rows of the source table, in the source store
    last_run_datetime, \* the last_run_datetime argument of get_new_data
    cursor,         \* the rows of the executed query's result
    new_data,       \* the rows of the DataFrame get_new_data returns
    config,         \* the value of "tables" in the JSON file
    tables,         \* the local tables of process_tables
    position,       \* the place in tables of table_info (0 before the loop)
    accesses,       \* the store accesses process_tables has made, in order
    previous,       \* how the run before this one went
    schema_name,    \* the schema_name argument of upsert_data
    table_name,     \* the table_name argument of upsert_data
    staging_table_full_name, \* the local staging_table_full_name of upsert_data
    named           \* the last calls' tables and the staging table each used

upsertVars == <<target, stagingExists, staging, dataframe, snap, pending, counts,
                rolledBack, atCall, repeat>>
fetchVars == <<source, last_run_datetime, cursor, new_data>>
processVars == <<config, tables, position, accesses, previous>>
nameVars == <<schema_name, table_name, staging_table_full_name, named>>
vars == <<pc, error, upsertVars, fetchVars, processVars, nameVars>>

Store == [target |-> target, stagingExists |-> stagingExists, staging |-> staging]
NoPending == [class |-> "none", step |-> "none"]
\* rows_inserted = 0; rows_updated = 0
ZeroCounts == [rows_inserted |-> 0, rows_updated |-> 0]

\* ------------------------------------------------- the store's statements

\* A TRUNCATE that leaves the rows in.
TruncateTable_Keep(rows) == rows

\* TRUNCATE TABLE staging.[...]
TruncateTable(rows) == <<>>

\* INSERT INTO staging.[...] (cols) VALUES (:cols), executed once per row of
\* `data` in order (executemany): the first n rows are in when row n+1 is refused.
InsertRows(rows, data, n) == rows \o SubSeq(data, 1, n)

\* A MERGE with a WHEN NOT MATCHED BY SOURCE THEN DELETE clause, run: the rows
\* of the target whose key the source lacks are gone.
MergeInto_DeleteUnmatched(T, S) == {r \in T : \E i \in 1..Len(S) : S[i].k = r.k}

\* MERGE INTO {schema_name}.{table_name} AS target USING staging.[...] AS source:
\* the rows of the target when connection.execute comes back. The batch is
\* refused when it is compiled (see ExecMerge): they are the rows T it held.
MergeInto(T, S) == T

\* A connection closed with work on it that no commit() made durable (the
\* connection autobegins, the engine is not in autocommit): the work is rolled
\* back, the store is as it was when the connection was opened.
CloseUncommitted(before, working) == before

\* A rollback that keeps the work done in the transaction.
Rollback_NoUndo(before, working) == working

\* trans.rollback(): the store is as it was at connection.begin().
Rollback(before, working) == before

\* ------------------------------------------------------------ upsert_data

\* The caller invokes upsert_data(engine, dataframe, schema, table, key_columns).
CallUpsert ==
    /\ pc = "idle"
    /\ dataframe' \in DataFrames
    /\ repeat' = FALSE
    /\ atCall' = Store
    /\ pending' = NoPending
    /\ error' = "none"
    /\ counts' = ZeroCounts
    /\ rolledBack' = FALSE
    /\ pc' = "ensure"
    /\ UNCHANGED <<target, stagingExists, staging, snap>>
    /\ UNCHANGED <<fetchVars, processVars, nameVars>>

\* The caller, the last call over, invokes upsert_data again with the same
\* dataframe and the same table.
CallAgain ==
    /\ pc = "raised"
    /\ ~repeat
    /\ repeat' = TRUE
    /\ atCall' = Store
    /\ pending' = NoPending
    /\ error' = "none"
    /\ counts' = ZeroCounts
    /\ rolledBack' = FALSE
    /\ pc' = "ensure"
    /\ UNCHANGED <<target, stagingExists, staging, snap, dataframe>>
    /\ UNCHANGED <<fetchVars, processVars, nameVars>>

\* The caller has the exception and goes on: the call's locals are gone, the
\* store stays.
Finish ==
    /\ pc = "raised"
    /\ pc' = "idle"
    /\ dataframe' = <<>>
    /\ snap' = Store
    /\ atCall' = Store
    /\ pending' = NoPending
    /\ error' = "none"
    /\ counts' = ZeroCounts
    /\ rolledBack' = FALSE
    /\ repeat' = FALSE
    /\ UNCHANGED <<target, stagingExists, staging>>
    /\ UNCHANGED <<fetchVars, processVars, nameVars>>

\* create_staging_table_if_not_exists, the statement: on a connection of its own
\* (autobegin), IF OBJECT_ID(...) IS NULL SELECT TOP 0 * INTO staging FROM target.
\* The store may refuse it (no staging schema, no target table, no connection):
\* the error rises outside the try of upsert_data.
CreateStagingExecute ==
    /\ pc = "ensure"
    /\ snap' = Store
    /\ \E ok \in BOOLEAN :
        IF ok
        THEN /\ stagingExists' = TRUE
             /\ staging' = IF stagingExists THEN staging ELSE <<>>
             /\ pc' = "ensure_close"
             /\ UNCHANGED error
        ELSE /\ error' = "SQLAlchemyError"
             /\ pc' = "raised"
             /\ UNCHANGED <<stagingExists, staging>>
    /\ UNCHANGED <<target, dataframe, pending, counts, rolledBack, atCall, repeat>>
    /\ UNCHANGED <<fetchVars, processVars, nameVars>>

\* create_staging_table_if_not_exists, the end of "with engine.connect()": the
\* connection is closed with no commit() on it, and what it did is rolled back.
CreateStagingClose ==
    /\ pc = "ensure_close"
    /\ LET back == CloseUncommitted(snap, Store) IN
        /\ target' = back.target
        /\ stagingExists' = back.stagingExists
        /\ staging' = back.staging
    /\ pc' = "begin"
    /\ UNCHANGED <<dataframe, snap, pending, error, counts, rolledBack, atCall, repeat>>
    /\ UNCHANGED <<fetchVars, processVars, nameVars>>

\* with engine.connect() as connection: trans = connection.begin()
Begin ==
    /\ pc = "begin"
    /\ snap' = Store
    /\ pc' = "truncate"
    /\ UNCHANGED <<target, stagingExists, staging, dataframe, pending, error, counts,
                   rolledBack, atCall, repeat>>
    /\ UNCHANGED <<fetchVars, processVars, nameVars>>

\* connection.execute(text(truncate_query)): refused when the staging table does
\* not exist, or by a fault of the store.
ExecTruncate ==
    /\ pc = "truncate"
    /\ \E ok \in BOOLEAN :
        IF ok /\ stagingExists
        THEN /\ staging' = TruncateTable(staging)
             /\ pc' = "load"
             /\ UNCHANGED pending
        ELSE /\ pending' = [class |-> "SQLAlchemyError", step |-> "truncate"]
             /\ pc' = "rollback"
             /\ UNCHANGED staging
    /\ UNCHANGED <<target, stagingExists, dataframe, snap, error, counts, rolledBack,
                   atCall, repeat>>
    /\ UNCHANGED <<fetchVars, processVars, nameVars>>

\* connection.execute(text(insert_query), data): one INSERT per row of data. The
\* store may refuse row n+1 (a value of the wrong type, a lost connection) with
\* rows 1..n in. With data = [] the statement is executed once with no
\* parameters, and is refused for its unbound :col placeholders.
ExecLoad ==
    /\ pc = "load"
    /\ \E n \in 0..Len(dataframe) :
        /\ staging' = InsertRows(staging, dataframe, n)
        /\ IF n = Len(dataframe) /\ Len(dataframe) > 0
           THEN /\ pc' = "merge"
                /\ UNCHANGED pending
           ELSE /\ pending' = [class |-> "SQLAlchemyError", step |-> "load"]
                /\ pc' = "rollback"
    /\ UNCHANGED <<target, stagingExists, dataframe, snap, error, counts, rolledBack,
                   atCall, repeat>>
    /\ UNCHANGED <<fetchVars, processVars, nameVars>>

\* connection.execute(text(merge_query)). SQL Server refuses the batch when it
\* compiles it, before a row is read or written: the MERGE has two WHEN MATCHED
\* clauses that both UPDATE and the first has no AND condition (Msg 10714), and
\* OUTPUT $action INTO @inserted names an INT variable where a table variable is
\* required (Msg 1087). Lines 120-124 (reading the counters, trans.commit()) and
\* line 129 (return UpsertResult) are never reached.
ExecMerge ==
    /\ pc = "merge"
    /\ target' = MergeInto(target, staging)
    /\ pending' = [class |-> "SQLAlchemyError", step |-> "merge"]
    /\ pc' = "rollback"
    /\ UNCHANGED <<stagingExists, staging, dataframe, snap, error, counts,
                   rolledBack, atCall, repeat>>
    /\ UNCHANGED <<fetchVars, processVars, nameVars>>

\* except Exception as e: trans.rollback()
ExecRollback ==
    /\ pc = "rollback"
    /\ LET back == Rollback(snap, Store) IN
        /\ target' = back.target
        /\ stagingExists' = back.stagingExists
        /\ staging' = back.staging
    /\ rolledBack' = TRUE
    /\ pc' = "reraise"
    /\ UNCHANGED <<dataframe, snap, pending, error, counts, atCall, repeat>>
    /\ UNCHANGED <<fetchVars, processVars, nameVars>>

\* raise e: the exception caught, itself, reaches the caller (the source defines
\* no exception class of its own).
Reraise ==
    /\ pc = "reraise"
    /\ error' = pending.class
    /\ pc' = "raised"
    /\ UNCHANGED <<target, stagingExists, staging, dataframe, snap, pending, counts,
                   rolledBack, atCall, repeat>>
    /\ UNCHANGED <<fetchVars, processVars, nameVars>>

\* ----------------------------------------------------------- get_new_data

\* WHERE {last_modified_column} > :last_run_datetime. A comparison with NULL is
\* not true: a row with no watermark is never selected.
Newer(wm, ts) == wm # Null /\ wm > ts

\* SELECT * FROM {schema}.{table} WHERE ...
SelectNewer(rows, ts) == {r \in rows : Newer(r.wm, ts)}

\* The caller invokes get_new_data(engine, schema, table, column, last_run_datetime).
CallFetch ==
    /\ pc = "idle"
    /\ last_run_datetime' \in Times
    /\ cursor' = {}
    /\ new_data' = {}
    /\ error' = "none"
    /\ pc' = "query"
    /\ UNCHANGED <<source, upsertVars, processVars, nameVars>>

\* result = connection.execute(text(query), {...}): the store answers with the
\* rows selected, or refuses (a bad identifier, no connection).
ExecQuery ==
    /\ pc = "query"
    /\ \E ok \in BOOLEAN :
        IF ok
        THEN /\ cursor' = SelectNewer(source, last_run_datetime)
             /\ pc' = "rows"
             /\ UNCHANGED error
        ELSE /\ error' = "SQLAlchemyError"
             /\ pc' = "raised"
             /\ UNCHANGED cursor
    /\ UNCHANGED <<source, last_run_datetime, new_data, upsertVars, processVars, nameVars>>

\* rows = [dict(row) for row in result]; new_data = pl.DataFrame(rows); return.
\* A Row of SQLAlchemy 2.x is a tuple with no keys(): dict(row) takes each of its
\* values for a (key, value) pair and raises TypeError on the first row (or
\* ValueError, when the value is a sequence not two long). With no row in the
\* result, rows = [] and an empty DataFrame is returned.
BuildFrame ==
    /\ pc = "rows"
    /\ IF cursor = {}
       THEN /\ new_data' = {}
            /\ pc' = "returned"
            /\ UNCHANGED error
       ELSE /\ error' = "TypeError"
            /\ pc' = "raised"
            /\ UNCHANGED new_data
    /\ UNCHANGED <<source, last_run_datetime, cursor, upsertVars, processVars, nameVars>>

\* The caller has the DataFrame or the exception, and goes on.
FinishFetch ==
    /\ pc \in {"raised", "returned"}
    /\ pc' = "idle"
    /\ error' = "none"
    /\ last_run_datetime' = DatetimeMin
    /\ cursor' = {}
    /\ new_data' = {}
    /\ UNCHANGED <<source, upsertVars, processVars, nameVars>>

\* --------------------------------------------------------- process_tables

\* The first of Fields that entry lacks, or "none".
MissingField(entry) ==
    IF \A i \in 1..Len(Fields) : Fields[i] \in entry
    THEN "none"
    ELSE Fields[CHOOSE i \in 1..Len(Fields) :
                    /\ Fields[i] \notin entry
                    /\ \A j \in 1..(i - 1) : Fields[j] \in entry]

\* process_tables before any run.
NoRun == [ended |-> "none", error |-> "none", accesses |-> <<>>]

\* An exception raised in the body of the loop and caught there: the loop goes
\* on with the next entry.
Propagate_NextTable(e) == "for"

\* An exception raised in the body of "for table_info in tables": process_tables
\* has no try, the exception leaves the loop and the function.
Propagate(e) == "raised"

\* The caller invokes process_tables(source_engine, target_engine, json_file).
CallProcess ==
    /\ pc = "idle"
    /\ tables' = <<>>
    /\ position' = 0
    /\ accesses' = <<>>
    /\ error' = "none"
    /\ pc' = "load_config"
    /\ UNCHANGED <<config, previous, upsertVars, fetchVars, nameVars>>

\* tables = load_table_list_from_json(json_file): json.load, then
\* config.get("tables", []). No entry is looked at. A file that is missing or
\* is not JSON raises OSError or JSONDecodeError.
LoadTableListFromJson ==
    /\ pc = "load_config"
    /\ \E ok \in BOOLEAN :
        IF ok
        THEN /\ tables' = config
             /\ pc' = "for"
             /\ UNCHANGED error
        ELSE /\ error' = "JSONDecodeError"
             /\ pc' = "raised"
             /\ UNCHANGED tables
    /\ UNCHANGED <<config, position, accesses, previous, upsertVars, fetchVars, nameVars>>

\* for table_info in tables: with the next entry, or done when there is none.
\* (No pass of the loop body ends: see GetLastRunDatetime.)
ForTable ==
    /\ pc = "for"
    /\ IF position < Len(tables)
       THEN /\ position' = position + 1
            /\ pc' = "fields"
       ELSE /\ pc' = "returned"
            /\ UNCHANGED position
    /\ UNCHANGED <<error, config, tables, accesses, previous, upsertVars, fetchVars, nameVars>>

\* schema_name = table_info["schema"]; ... ["name"]; ... ["key_columns"];
\* ... ["last_modified_column"]: KeyError on the first key the entry lacks.
ReadFields ==
    /\ pc = "fields"
    /\ IF MissingField(tables[position]) = "none"
       THEN /\ pc' = "watermark"
            /\ UNCHANGED error
       ELSE /\ error' = "KeyError"
            /\ pc' = Propagate("KeyError")
    /\ UNCHANGED <<processVars, upsertVars, fetchVars, nameVars>>

\* last_run_datetime = get_last_run_datetime(target_engine, ...): SELECT
\* MAX(last_run_datetime) FROM the table, in the target store. The store
\* refuses the query, or answers with one row (MAX of no rows is NULL);
\* fetchone() gives a Row, which is true, and result["last_run_datetime"]
\* raises TypeError: a Row of SQLAlchemy 2.x is a tuple, indexed by integers.
\* Lines 81-98 (the datetime.min default, the calls of get_new_data and
\* upsert_data, which name the imported modules, not their functions) are
\* never reached.
GetLastRunDatetime ==
    /\ pc = "watermark"
    /\ \E ok \in BOOLEAN :
        LET e == IF ok THEN "TypeError" ELSE "SQLAlchemyError" IN
        /\ accesses' = Append(accesses, [store |-> "target", op |-> "watermark",
                                          table |-> position, raised |-> e])
        /\ error' = e
        /\ pc' = Propagate(e)
    /\ UNCHANGED <<config, tables, position, previous, upsertVars, fetchVars, nameVars>>

\* The caller has the outcome, and goes on: the next run is the scheduler's.
FinishProcess ==
    /\ pc \in {"raised", "returned"}
    /\ previous' = [ended |-> pc, error |-> error, accesses |-> accesses]
    /\ pc' = "idle"
    /\ error' = "none"
    /\ tables' = <<>>
    /\ position' = 0
    /\ accesses' = <<>>
    /\ UNCHANGED <<config, upsertVars, fetchVars, nameVars>>

\* ------------------------------------------- upsert_data, the staging name

\* staging_table_full_name = f"[{schema_name}_{table_name}]"
StagingTableFullName(schema, table) ==
    <<"[">> \o schema \o <<"_">> \o table \o <<"]">>

\* The caller invokes upsert_data(engine, dataframe, schema_name, table_name, ...).
CallUpsertOf ==
    /\ pc = "idle"
    /\ schema_name' \in Names
    /\ table_name' \in Names
    /\ staging_table_full_name' = <<>>
    /\ pc' = "name"
    /\ UNCHANGED <<named, error, upsertVars, fetchVars, processVars>>

\* staging_table_full_name = f"[{schema_name}_{table_name}]"
NameStaging ==
    /\ pc = "name"
    /\ staging_table_full_name' = StagingTableFullName(schema_name, table_name)
    /\ pc' = "stage"
    /\ UNCHANGED <<schema_name, table_name, named, error, upsertVars, fetchVars,
                   processVars>>

\* The statements of the call that name the staging table (the SELECT ... INTO
\* of create_staging_table_if_not_exists, TRUNCATE TABLE, INSERT INTO, MERGE ...
\* USING) all name staging.{staging_table_full_name}. The call over, this call
\* and the one before it are remembered.
UseStaging ==
    /\ pc = "stage"
    /\ named' = <<[schema |-> schema_name, table |-> table_name,
                   staging |-> staging_table_full_name]>>
                \o (IF named = <<>> THEN <<>> ELSE <<Head(named)>>)
    /\ pc' = "idle"
    /\ UNCHANGED <<schema_name, table_name, staging_table_full_name, error,
                   upsertVars, fetchVars, processVars>>

\* --------------------------------------------------------- specifications

\* The target store as a call of upsert_data may find it.
AnyTargetStore ==
    /\ target \in Targets
    /\ stagingExists \in BOOLEAN
    /\ staging \in (IF stagingExists THEN Residues ELSE {<<>>})

EmptyTargetStore ==
    /\ target = {}
    /\ stagingExists = FALSE
    /\ staging = <<>>

NoUpsertCall ==
    /\ dataframe = <<>>
    /\ snap = Store
    /\ pending = NoPending
    /\ counts = ZeroCounts
    /\ rolledBack = FALSE
    /\ atCall = Store
    /\ repeat = FALSE

NoFetchCall ==
    /\ last_run_datetime = DatetimeMin
    /\ cursor = {}
    /\ new_data = {}

NoNamedCall ==
    /\ schema_name = <<>>
    /\ table_name = <<>>
    /\ staging_table_full_name = <<>>
    /\ named = <<>>

NoProcessCall ==
    /\ tables = <<>>
    /\ position = 0
    /\ accesses = <<>>
    /\ previous = NoRun

\* Calls of upsert_data.
Init ==
    /\ pc = "idle"
    /\ error = "none"
    /\ AnyTargetStore
    /\ NoUpsertCall
    /\ source = {}
    /\ NoFetchCall
    /\ config = <<>>
    /\ NoProcessCall
    /\ NoNamedCall

Next ==
    \/ CallUpsert
    \/ CreateStagingExecute
    \/ CreateStagingClose
    \/ Begin
    \/ ExecTruncate
    \/ ExecLoad
    \/ ExecMerge
    \/ ExecRollback
    \/ Reraise
    \/ CallAgain
    \/ Finish

Spec == Init /\ [][Next]_vars

\* Calls of get_new_data.
InitFetch ==
    /\ pc = "idle"
    /\ error = "none"
    /\ EmptyTargetStore
    /\ NoUpsertCall
    /\ source \in Sources
    /\ NoFetchCall
    /\ config = <<>>
    /\ NoProcessCall
    /\ NoNamedCall

NextFetch ==
    \/ CallFetch
    \/ ExecQuery
    \/ BuildFrame
    \/ FinishFetch

SpecFetch == InitFetch /\ [][NextFetch]_vars

\* Runs of process_tables.
InitProcess ==
    /\ pc = "idle"
    /\ error = "none"
    /\ EmptyTargetStore
    /\ NoUpsertCall
    /\ source = {}
    /\ NoFetchCall
    /\ config \in Configs
    /\ NoProcessCall
    /\ NoNamedCall

NextProcess ==
    \/ CallProcess
    \/ LoadTableListFromJson
    \/ ForTable
    \/ ReadFields
    \/ GetLastRunDatetime
    \/ FinishProcess

SpecProcess == InitProcess /\ [][NextProcess]_vars

\* Calls of upsert_data for named tables.
InitStaging ==
    /\ pc = "idle"
    /\ error = "none"
    /\ EmptyTargetStore
    /\ NoUpsertCall
    /\ source = {}
    /\ NoFetchCall
    /\ config = <<>>
    /\ NoProcessCall
    /\ NoNamedCall

NextStaging ==
    \/ CallUpsertOf
    \/ NameStaging
    \/ UseStaging

SpecStaging == InitStaging /\ [][NextStaging]_vars

\* ============================================================== the claims

\* What the claims speak of.
BatchKeys(b) == {b[i].k : i \in 1..Len(b)}
NoDuplicateKeys(b) == \A i \in 1..Len(b), j \in 1..Len(b) : b[i].k = b[j].k => i = j
TableKeys(T) == {r.k : r \in T}
\* The merge the specification describes: overwrite on a key match, insert
\* otherwise, every other row kept.
Merged(T, b) ==
    {r \in T : r.k \notin BatchKeys(b)} \cup {b[i] : i \in 1..Len(b)}
\* The call is over.
Over == pc \in {"raised", "returned"}
\* The call is over and its truncate and load went through: the reconcile
\* statement was given the whole dataframe.
Reconciled == pc = "returned" \/ (pc = "raised" /\ pending.step = "merge")
\* The call is over and failed in truncate, load or reconcile.
FailedInTransaction == pc = "raised" /\ pending.step \in {"truncate", "load", "merge"}

\* C1: when truncate, load or reconcile fails, the transaction is rolled back:
\* nothing it wrote survives, and the target table holds exactly the rows it held
\* before the call (so does the staging table, truncated and loaded inside the
\* same transaction).
C1_Atomicity ==
    FailedInTransaction =>
        /\ rolledBack
        /\ target = atCall.target
        /\ staging = atCall.staging
        /\ stagingExists = atCall.stagingExists

\* A call that truncated a staging table holding a row, loaded other rows,
\* failed in reconcile, and was rolled back, over a target with rows.
C1_Witness ==
    /\ FailedInTransaction
    /\ pending.step = "merge"
    /\ atCall.staging # <<>>
    /\ atCall.staging # dataframe
    /\ target # {}

\* C2: the same dataframe (no duplicate keys) applied twice in a row: the
\* second application returns rows_inserted = 0 and rows_updated = the number
\* of its rows whose key is in the target after the first application, and
\* leaves the target as the first application left it.
C2_Idempotence ==
    (repeat /\ Reconciled /\ NoDuplicateKeys(dataframe)) =>
        /\ pc = "returned"
        /\ counts.rows_inserted = 0
        /\ counts.rows_updated =
              Cardinality({i \in 1..Len(dataframe) : dataframe[i].k \in TableKeys(atCall.target)})
        /\ target = atCall.target

\* C3: after upsert_data has staged a dataframe (no duplicate keys) and
\* reconciled it, the target holds, for every key of the dataframe, exactly the
\* dataframe's row, and every row of another key as before.
C3_TargetContent ==
    (Reconciled /\ NoDuplicateKeys(dataframe)) => target = Merged(atCall.target, dataframe)

\* C4: for a dataframe with no duplicate keys (the target holds one row per key),
\* upsert_data, its dataframe staged and reconciled, returns
\* rows_inserted + rows_updated = the number of distinct key-tuples of the dataframe.
C4_DisjointCounting ==
    (Reconciled /\ NoDuplicateKeys(dataframe)) =>
        /\ pc = "returned"
        /\ counts.rows_inserted + counts.rows_updated = Cardinality(BatchKeys(dataframe))

C6_StagingReuse ==
    /\ pc = "load" => staging = <<>>
    /\ pc = "merge" => (\A i \in 1..Len(staging) : staging[i] = dataframe[i])
                       /\ Len(staging) = Len(dataframe)
    /\ (pc = "raised" /\ pending.step = "merge") => target = atCall.target

\* The second of two calls in a row, started on a staging table that holds a row
\* from before, has been rolled back after reaching the reconcile statement.
C6_Witness ==
    /\ repeat
    /\ pc = "raised"
    /\ pending.step = "merge"
    /\ atCall.staging # <<>>

\* C7: a failure in truncate, load or reconcile is rolled back before the error
\* reaches the caller, the error is an UpsertError, and no UpsertResult is
\* returned.
C7_ErrorOutcome ==
    FailedInTransaction => (rolledBack /\ error = "UpsertError")

\* C8: the first run of a table is a full load: get_new_data called with the
\* "beginning of time" sentinel, which process_tables uses when the table has
\* no run recorded, returns every row of the source table, the rows whose
\* watermark is NULL or is the sentinel included.
C8_FirstRunFullLoad ==
    (pc = "returned" /\ last_run_datetime = DatetimeMin) => new_data = source

\* C9: for every source content and timestamp, get_new_data (the store
\* answering its query) returns exactly the source rows whose watermark is
\* strictly greater than the timestamp.
C9_ChangeFetcher ==
    (Over /\ error # "SQLAlchemyError") =>
        /\ pc = "returned"
        /\ new_data = {r \in source : r.wm # Null /\ r.wm > last_run_datetime}

\* C10: when an entry of the config lacks a required field, the run fails with
\* ConfigError while the configuration is loaded, before any store is accessed.
C10_ConfigFailFast ==
    (Over /\ error # "JSONDecodeError"
          /\ \E i \in 1..Len(config) : MissingField(config[i]) # "none") =>
        (error = "ConfigError" /\ accesses = <<>>)

\* What the claims about process_tables speak of.
\* The table whose cycle the run before this one failed in.
FailedTable == previous.accesses[Len(previous.accesses)].table
\* The run made, for the table at place i, an access of kind op that went through.
Performed(op, i) ==
    \E j \in 1..Len(accesses) :
        /\ accesses[j].op = op
        /\ accesses[j].table = i
        /\ accesses[j].raised = "none"

\* C11: a run that follows a run which failed in a table's cycle, the stores
\* answering its statements, reads that table's watermark (the one the failed
\* run read: no run writes it) and fetches the table's batch again.
C11_RetryAfterFailure ==
    (/\ Over
     /\ previous.ended = "raised"
     /\ previous.accesses # <<>>
     /\ error # "SQLAlchemyError") =>
        /\ Performed("watermark", FailedTable)
        /\ Performed("fetch", FailedTable)

\* C12: upsert_data, its dataframe (no duplicate keys) staged and reconciled,
\* returns rows_updated = the number of its rows whose key was in the target
\* before the call and rows_inserted = the number of its rows whose key was not.
C12_PerBranchCounts ==
    (Reconciled /\ NoDuplicateKeys(dataframe)) =>
        /\ pc = "returned"
        /\ counts.rows_updated =
              Cardinality({i \in 1..Len(dataframe) : dataframe[i].k \in TableKeys(atCall.target)})
        /\ counts.rows_inserted =
              Cardinality({i \in 1..Len(dataframe) : dataframe[i].k \notin TableKeys(atCall.target)})

\* C13: a run of process_tables over well-formed entries, the stores answering
\* its statements, performs for every entry, in the order of the file, the
\* watermark read, then the fetch, then the upsert, and is through with an entry
\* before it starts on the next.
C13_OrchestratorOrdering ==
    (/\ Over
     /\ error # "SQLAlchemyError"
     /\ \A i \in 1..Len(tables) : MissingField(tables[i]) = "none") =>
        /\ \A i \in 1..Len(tables) :
              \E j1, j2, j3 \in 1..Len(accesses) :
                  /\ j1 < j2 /\ j2 < j3
                  /\ accesses[j1].table = i /\ accesses[j1].op = "watermark"
                  /\ accesses[j2].table = i /\ accesses[j2].op = "fetch"
                  /\ accesses[j3].table = i /\ accesses[j3].op = "upsert"
        /\ \A j, k \in 1..Len(accesses) :
              accesses[j].table < accesses[k].table => j < k

\* C14: once create_staging_table_if_not_exists has run, the staging table
\* exists (created empty if it was absent, as it was if it existed) and the
\* target is as it was; and the staging table still exists when the main
\* transaction has been rolled back.
C14_EnsureStaging ==
    /\ pc = "begin" =>
          /\ stagingExists
          /\ staging = (IF atCall.stagingExists THEN atCall.staging ELSE <<>>)
          /\ target = atCall.target
    /\ FailedInTransaction => stagingExists

\* C15: no step of any call of upsert_data, whatever the dataframe holds or
\* lacks and however the call ends, takes a key away from the target table.
C15_NoDeletion == [][TableKeys(target) \subseteq TableKeys(target')]_vars

\* A call is over whose dataframe, staged and given to the reconcile statement,
\* lacked the key of a row of the target (a row deleted at the source); the row
\* is in the target.
C15_Witness ==
    /\ pc = "raised"
    /\ pending.step = "merge"
    /\ \E r \in target : r.k \notin BatchKeys(dataframe)

\* The call is over and its truncate went through: the load was given the
\* dataframe.
Loaded == pc = "returned" \/ (pc = "raised" /\ pending.step \in {"load", "merge"})

\* C17: upsert_data given a dataframe with no rows (the staging table there,
\* the truncate gone through) returns UpsertResult(0, 0) and leaves the target
\* as it was.
C17_EmptyBatch ==
    (Loaded /\ dataframe = <<>>) =>
        /\ pc = "returned"
        /\ counts = ZeroCounts
        /\ target = atCall.target

\* C16: of two runs in a row over the same well-formed entries, the source not
\* changed between them and the stores answering their statements, the second
\* reads every table's watermark, fetches (an empty batch), and returns.
C16_IncrementalConvergence ==
    (/\ Over
     /\ previous.ended # "none"
     /\ previous.error # "SQLAlchemyError"
     /\ error # "SQLAlchemyError"
     /\ tables # <<>>
     /\ \A i \in 1..Len(tables) : MissingField(tables[i]) = "none") =>
        /\ pc = "returned"
        /\ \A i \in 1..Len(tables) : Performed("watermark", i) /\ Performed("fetch", i)

\* C18: a store access that raises is the last access of the run, and its
\* error is the error the caller of process_tables gets: no table after the one
\* that failed is read, fetched or written.
C18_AbortOnFirstFailure ==
    \A j \in 1..Len(accesses) :
        accesses[j].raised # "none" =>
            /\ j = Len(accesses)
            /\ pc = "raised"
            /\ error = accesses[j].raised

\* A run over two well-formed entries has raised in the watermark read of the
\* first; the second has not been touched.
C18_Witness ==
    /\ pc = "raised"
    /\ Len(tables) = 2
    /\ MissingField(tables[2]) = "none"
    /\ Len(accesses) = 1
    /\ accesses[1].table = 1
    /\ accesses[1].raised # "none"

\* C19: two calls of upsert_data for two distinct (schema, table) pairs use two
\* distinct staging tables.
C19_OneStagingPerTable ==
    \A i, j \in 1..Len(named) :
        (named[i].schema # named[j].schema \/ named[i].table # named[j].table) =>
            named[i].staging # named[j].staging
====
